---- MODULE Spec2Model ----
(***************************************************************************)
(* Model of the chat client's reconciliation layer: the App component of   *)
(* src/src/App.tsx (session state, message lists, friend list, the         *)
(* subscribing effect and its listeners) and the Gun service module        *)
(* src/unnamed/part_000 (getPrivateRoomId, the identity provider).         *)
(*                                                                         *)
(* Strings that the code sorts or joins (public keys, room ids) are        *)
(* sequences of one-character strings; Code gives each character its       *)
(* UTF-16 code unit, which is what Array.prototype.sort compares.          *)
(***************************************************************************)
EXTENDS Integers, Sequences, FiniteSets, Bags, TLC

\* ------------------------------------------------------------------ bounds

\* Message keys delivered on one room path are 1..MaxKeys.
MaxKeys == 2
\* Timestamps carried by message events are 1..MaxTime (or absent).
MaxTime == 2
\* Steps that make the state grow (a message stored, a friend record
\* accepted, a change of isAuthenticated, a restored session), all together.
MaxWork == 3
\* Length of the identity strings given to getPrivateRoomId on its own.
MaxIdLen == 3
\* Friend records put on the friends path.
MaxPuts == 1
\* Lengths of the message text and of the alias given to isMention.
MaxTextLen == 4
MaxUserLen == 2
\* Records this client writes on message paths.
MaxSent == 1
\* Sessions opened one after the other, where identities follow each other.
MaxSessions == 2

\* ----------------------------------------------------------------- strings

\* UTF-16 code units of the characters the model's strings are made of.
Code == [c \in {"_", "a", "b", "c"} |-> CASE c = "_" -> 95 [] c = "a" -> 97
                                          [] c = "b" -> 98 [] c = "c" -> 99]

\* The characters identity strings are drawn from when getPrivateRoomId is
\* exercised on its own.
IdChars == {"_", "a", "b"}

RECURSIVE StrLess(_, _)
\* s < t for strings, by code units (the order of the default sort()).
StrLess(s, t) ==
    IF t = <<>> THEN FALSE
    ELSE IF s = <<>> THEN TRUE
    ELSE IF Code[Head(s)] # Code[Head(t)] THEN Code[Head(s)] < Code[Head(t)]
    ELSE StrLess(Tail(s), Tail(t))

\* [pub1, pub2].join('_') without the sort.
JoinUnsorted(pub1, pub2) == pub1 \o <<"_">> \o pub2

\* [pub1, pub2].sort().join('_')
getPrivateRoomId(pub1, pub2) ==
    IF StrLess(pub2, pub1) THEN pub2 \o <<"_">> \o pub1
    ELSE pub1 \o <<"_">> \o pub2

\* All strings over IdChars of length 0..MaxIdLen.
IdStrings == UNION {[1..n -> IdChars] : n \in 0..MaxIdLen}

\* ------------------------------------------------------------- identities

PUBA == <<"a">>
PUBB == <<"b">>
PUBC == <<"c">>

\* The identities that can authenticate with the provider.
Users == {PUBA, PUBB}
\* The keys that appear on a friends path.
FriendKeys == {PUBB, PUBC}
\* gunUser.is when nobody is authenticated.
NoUser == <<>>
\* The alias the provider holds for an identity.
AliasOf(u) == IF u = PUBA THEN "alice" ELSE IF u = PUBB THEN "bob" ELSE "carol"
\* An alias emission without a value.
NoAlias == ""

\* ---------------------------------------------------------------- messages

\* A field the event's value does not have (undefined).
NoMsg == "<undefined>"
\* A time field that is missing: every subtraction with it is NaN.
NoTime == 0 - 1
Times == 1..MaxTime
MsgKeys == 1..MaxKeys

\* The value of a deleted node: the callback's data is null.
Tombstone == [nil |-> TRUE, msg |-> NoMsg, user |-> "", pub |-> <<>>, time |-> NoTime]

\* Values a message event can carry: a tombstone, or a record whose msg may
\* be missing or empty and whose time may be missing.
MsgValues ==
    {Tombstone} \cup
    [nil : {FALSE}, msg : {NoMsg, ""}, user : {"alice"}, pub : {PUBA}, time : {1}] \cup
    [nil : {FALSE}, msg : {"hello"}, user : {"alice"}, pub : {PUBA},
     time : Times \cup {NoTime}]

\* The filter without its test of the text: if (data).
TruthyData(data) == ~data.nil

\* data && data.msg
Truthy(data) == ~data.nil /\ data.msg # NoMsg /\ data.msg # ""

\* { ...data, id }
WithId(data, id) ==
    [id |-> id, msg |-> data.msg, user |-> data.user, pub |-> data.pub,
     time |-> data.time]

\* prev.find(m => m.id === id)
FindId(list, id) == \E i \in 1..Len(list) : list[i].id = id

\* The comparator read the wrong way round (ascending).
CompareTimeAscending(a, b) ==
    IF a.time = NoTime \/ b.time = NoTime THEN 0
    ELSE IF a.time < b.time THEN 0 - 1
    ELSE IF a.time > b.time THEN 1
    ELSE 0

\* The comparator (a, b) => b.time - a.time as sort() reads it: negative
\* when a goes first, positive when b goes first, and NaN (a missing time)
\* read as +0.
CompareTime(a, b) ==
    IF a.time = NoTime \/ b.time = NoTime THEN 0
    ELSE IF b.time < a.time THEN 0 - 1
    ELSE IF b.time > a.time THEN 1
    ELSE 0

\* sort() requires a consistent comparator: "compares equal" has to be
\* transitive and compatible with the order. A NaN result next to two
\* different times breaks that.
ConsistentComparator(list) ==
    \A i, j, k \in 1..Len(list) :
        /\ (CompareTime(list[i], list[j]) = 0 /\ CompareTime(list[j], list[k]) = 0)
              => CompareTime(list[i], list[k]) = 0
        /\ (CompareTime(list[i], list[j]) = 0 /\ CompareTime(list[j], list[k]) < 0)
              => CompareTime(list[i], list[k]) < 0
        /\ (CompareTime(list[i], list[j]) < 0 /\ CompareTime(list[j], list[k]) = 0)
              => CompareTime(list[i], list[k]) < 0

\* x put into an already sorted list, behind everything that does not have
\* to follow it (a stable insertion).
RECURSIVE InsertStable(_, _)
InsertStable(x, sorted) ==
    IF sorted = <<>> THEN <<x>>
    ELSE IF CompareTime(Head(sorted), x) > 0 THEN <<x>> \o sorted
    ELSE <<Head(sorted)>> \o InsertStable(x, Tail(sorted))

\* The stable sort of a list under CompareTime.
RECURSIVE StableSort(_)
StableSort(list) ==
    IF list = <<>> THEN <<>>
    ELSE InsertStable(list[Len(list)], StableSort(SubSeq(list, 1, Len(list) - 1)))

\* Every arrangement of a list's elements.
Arrangements(list) ==
    {[i \in 1..Len(list) |-> list[p[i]]] : p \in Permutations(1..Len(list))}

\* list.sort((a, b) => b.time - a.time): the stable sort when the comparator
\* is consistent on the list, and an implementation-defined arrangement when
\* it is not (ECMA-262, Array.prototype.sort).
SortOutcomes(list) ==
    IF ConsistentComparator(list) THEN {StableSort(list)} ELSE Arrangements(list)

\* The updater putting the new message behind the others before the sort.
MergeAppended(prev, data, id) ==
    IF FindId(prev, id) THEN {prev}
    ELSE SortOutcomes(prev \o <<WithId(data, id)>>)

\* The updater taking the event's value for a key it already holds.
MergeUpsert(prev, data, id) ==
    IF FindId(prev, id)
    THEN {[i \in 1..Len(prev) |-> IF prev[i].id = id THEN WithId(data, id) ELSE prev[i]]}
    ELSE SortOutcomes(<<WithId(data, id)>> \o prev)

\* The updater without the id check.
MergeNoDedup(prev, data, id) == SortOutcomes(<<WithId(data, id)>> \o prev)

\* The state updater of both listeners, as the set of lists it can return:
\*   if (prev.find(m => m.id === id)) return prev;
\*   return [{ ...data, id }, ...prev].sort((a, b) => b.time - a.time);
MergeMessage(prev, data, id) ==
    IF FindId(prev, id) THEN {prev}
    ELSE SortOutcomes(<<WithId(data, id)>> \o prev)

\* ----------------------------------------------------------------- friends

\* The value of a friend record that was deleted: the callback's data is null.
NoFriendValue == [nil |-> TRUE, alias |-> "", status |-> ""]

\* Values an event on a friends path can carry.
FriendValues ==
    {NoFriendValue} \cup
    [nil : {FALSE}, alias : {"x", "y"}, status : {"friend", "pending"}]

\* The filter without its test of the status: if (data).
IsAnyRecord(data) == ~data.nil

\* data && data.status === 'friend'
IsFriendRecord(data) == ~data.nil /\ data.status = "friend"

\* prev.find(f => f.pub === id)
FindPub(list, id) == \E i \in 1..Len(list) : list[i].pub = id

\* The setFriends updater without the pub check.
AddFriendNoDedup(prev, data, id) ==
    Append(prev, [pub |-> id, alias |-> data.alias, status |-> data.status])

\* The setFriends updater:
\*   if (prev.find(f => f.pub === id)) return prev;
\*   return [...prev, { ...data, pub: id }];
AddFriendEntry(prev, data, id) ==
    IF FindPub(prev, id) THEN prev
    ELSE Append(prev, [pub |-> id, alias |-> data.alias, status |-> data.status])

\* ------------------------------------------------------------------- state

VARIABLES
    userIs,           \* gunUser.is: the provider's current identity, or NoUser
    sess,             \* how many sessions the provider has established so far
    isAuthenticated,  \* useState(false)
    currentUser,      \* useState('')
    currentPub,       \* useState('')
    isCheckingAuth,   \* useState(true)
    globalMessages,   \* useState<Message[]>([])
    privateMessages,  \* useState<Record<string, Message[]>>({})
    friends,          \* useState<Friend[]>([])
    subs,             \* the listeners registered with .on() (none is ever removed)
    effectPending,    \* the effect has to run: after mount, or isAuthenticated changed
    sessionWork,      \* changes of isAuthenticated and restored sessions so far
    arrivedG,         \* history: the global room's stored messages in arrival order
    last,             \* history: the callback or handler that ran last
    argA, argB,       \* getPrivateRoomId on its own: the two arguments
    roomAB, roomBA,   \* ... and its results for (argA, argB) and (argB, argA)
    friendPuts,       \* the records put on user.get('friends') so far
    showAddFriend,    \* useState(false)
    friendIdInput,    \* useState('')
    friendAliasInput, \* useState('')
    peerIs,           \* a second client: its provider's identity, or NoUser
    peerSelected,     \* a second client: the pub of its selectedFriend, or NoUser
    roomStore,        \* the records set() on private-room paths so far
    isLogin,          \* AuthOverlay: useState(true)
    loading,          \* AuthOverlay: useState(false)
    error,            \* AuthOverlay: useState('')
    submitting,       \* AuthOverlay.handleSubmit: the call it awaits, or "idle"
    username,         \* AuthOverlay.handleSubmit: the username it was started with
    mText, mUser,     \* ChatView on its own: notif.msg and currentUser
    mFlag,            \* ... and isMention for them
    updates,          \* the state updaters React has queued for the next render
    arrivedP,         \* history: each private room's accepted messages in arrival order
    selectedFriend,   \* useState<Friend | null>(null): <<>> or the one friend
    sent,             \* the records this client has set() on message paths so far
    pending           \* the service's send that awaits the alias: <<>> or the one call

appVars == <<userIs, sess, isAuthenticated, currentUser, currentPub, isCheckingAuth,
             globalMessages, privateMessages, friends, subs, effectPending,
             sessionWork, arrivedG, last>>
roomVars == <<argA, argB, roomAB, roomBA>>
addVars == <<friendPuts, showAddFriend, friendIdInput, friendAliasInput>>
\* Everything that is not the App component's own state.
pairVars == <<peerIs, peerSelected, roomStore>>
overlayVars == <<isLogin, loading, error, submitting, username>>
\* The side state the App component's own operations leave alone.
mentionVars == <<mText, mUser, mFlag>>
queueVars == <<updates, arrivedP>>
chatVars == <<selectedFriend, sent, pending>>
aloneVars == <<roomVars, addVars, pairVars, mentionVars, queueVars, chatVars, chatVars>>
sideVars == <<aloneVars, overlayVars>>
vars == <<appVars, sideVars>>

\* A result that has not been computed.
NoRoom == <<"?">>

\* A listener: what it listens to, the room or the user its path belongs to,
\* and the provider's identity and session at the time it was registered
\* (session 0: registered while nobody was authenticated).
Listener(kind, path) ==
    [kind |-> kind, path |-> path, owner |-> userIs,
     sess |-> IF userIs = NoUser THEN 0 ELSE sess]

ActiveListeners(kind) == {l \in BagToSet(subs) : l.kind = kind}

\* One registered listener of a kind for each path that has any: a callback
\* does the same whichever of a path's listeners runs it.
OnePerPath(kind) ==
    {CHOOSE l \in ActiveListeners(kind) : l.path = p :
        p \in {x.path : x \in ActiveListeners(kind)}}

\* prev[roomId] || []
RoomMsgs(prev, roomId) == IF roomId \in DOMAIN prev THEN prev[roomId] ELSE <<>>

\* Messages held in all lists together.
RECURSIVE SumLen(_, _)
SumLen(f, rooms) ==
    IF rooms = {} THEN 0
    ELSE LET r == CHOOSE x \in rooms : TRUE
         IN  Len(f[r]) + SumLen(f, rooms \ {r})
Stored == Len(globalMessages) + SumLen(privateMessages, DOMAIN privateMessages)

\* The growth of the state so far, which MaxWork bounds: the messages
\* stored, the changes of isAuthenticated and restored sessions, and the
\* friend records accepted (each adds an entry, a private-room listener, or
\* both).
WorkOf(registry, registered) ==
    LET opened == BagCardinality([l \in {x \in BagToSet(registered) : x.kind = "private"}
                                   |-> registered[l]])
    IN  Stored + sessionWork + (IF Len(registry) > opened THEN Len(registry) ELSE opened)
Work == WorkOf(friends, subs)

\* A listener registered in a session that has ended since.
Stale(l) == l.sess # 0 /\ (userIs = NoUser \/ l.sess # sess)

\* What `last` records: the operation that ran last and what became of its
\* event ("rejected" by the callback's filter, "new" key, or a key already
\* held, with the "same" value as the one held or one that "differs").
Did(op, what) == [op |-> op, what |-> what]

\* What became of an event: whether the callback's filter accepted it,
\* whether its key was found, and whether the value held for the key is the
\* event's.
Outcome(accepted, found, sameValue) ==
    IF ~accepted THEN "rejected"
    ELSE IF ~found THEN "new"
    ELSE IF sameValue THEN "same" ELSE "differs"

\* ack.err of an acknowledgement without an error.
NoErr == ""
\* The reasons the provider gives in ack.err.
AckErrs == {"Wrong user or password.", "User already created!"}

\* AuthOverlay as it is mounted: its useState initial values, and no
\* handleSubmit under way.
OverlayInit ==
    /\ isLogin = TRUE
    /\ loading = FALSE
    /\ error = ""
    /\ submitting = "idle"
    /\ username = NoUser

\* The overlay unmounts: it is in its initial state when it is mounted again.
OverlayUnmounts ==
    /\ isLogin' = TRUE
    /\ loading' = FALSE
    /\ error' = ""
    /\ submitting' = "idle"
    /\ username' = NoUser

\* The overlay is rendered: {!isAuthenticated && <AuthOverlay ... />}, behind
\* the isCheckingAuth spinner.
OverlayMounted == ~isCheckingAuth /\ ~isAuthenticated

\* The state outside the App component before anything has been done.
SideInit ==
    /\ friendPuts = {}
    /\ showAddFriend = FALSE
    /\ friendIdInput = <<>>
    /\ friendAliasInput = <<>>
    /\ peerIs = NoUser
    /\ peerSelected = NoUser
    /\ roomStore = {}
    /\ OverlayInit
    /\ mText = <<>> /\ mUser = <<>> /\ mFlag = "?"
    /\ updates = <<>> /\ arrivedP = <<>>
    /\ selectedFriend = <<>> /\ sent = {} /\ pending = <<>>

Init ==
    /\ userIs = NoUser
    /\ sess = 0
    /\ isAuthenticated = FALSE
    /\ currentUser = ""
    /\ currentPub = <<>>
    /\ isCheckingAuth = TRUE
    /\ globalMessages = <<>>
    /\ privateMessages = <<>>
    /\ friends = <<>>
    /\ subs = EmptyBag
    /\ effectPending = TRUE
    /\ sessionWork = 0
    /\ arrivedG = <<>>
    /\ last = Did("init", "-")
    /\ argA = <<>> /\ argB = <<>> /\ roomAB = NoRoom /\ roomBA = NoRoom
    /\ SideInit

\* ----------------------------------------------------------------- session

\* The session stream's callback acting on its first emission only.
AliasEmitFirstOnly(l, alias) ==
    /\ ~effectPending
    /\ LET auth == IF isCheckingAuth THEN alias # NoAlias /\ userIs # NoUser
                   ELSE isAuthenticated
       IN  /\ auth # isAuthenticated => Work < MaxWork
           /\ isAuthenticated' = auth
           /\ currentUser' = IF ~isCheckingAuth THEN currentUser
                             ELSE IF auth THEN alias ELSE ""
           /\ currentPub' = IF ~isCheckingAuth THEN currentPub
                            ELSE IF auth THEN userIs ELSE <<>>
           /\ effectPending' = (auth # isAuthenticated)
           /\ sessionWork' = IF auth # isAuthenticated THEN sessionWork + 1
                             ELSE sessionWork
           /\ last' = Did("alias", "-")
           /\ IF auth THEN OverlayUnmounts ELSE UNCHANGED overlayVars
    /\ isCheckingAuth' = FALSE
    /\ UNCHANGED <<userIs, sess, globalMessages, privateMessages, friends, subs,
                   arrivedG, aloneVars>>

\* The session stream's callback (App.tsx, gunUser.get('alias').on):
\* authenticated exactly when the emitted alias is non-empty and the provider
\* has an identity. An authenticated session unmounts the overlay, whose
\* state is its initial one when it is mounted again.
AliasEmit(l, alias) ==
    /\ ~effectPending
    /\ LET auth == alias # NoAlias /\ userIs # NoUser
       IN  /\ auth # isAuthenticated => Work < MaxWork
           /\ isAuthenticated' = auth
           /\ currentUser' = IF auth THEN alias ELSE ""
           /\ currentPub' = IF auth THEN userIs ELSE <<>>
           /\ effectPending' = (auth # isAuthenticated)
           /\ sessionWork' = IF auth # isAuthenticated THEN sessionWork + 1
                             ELSE sessionWork
           /\ last' = Did("alias", "-")
           /\ IF auth THEN OverlayUnmounts ELSE UNCHANGED overlayVars
    /\ isCheckingAuth' = FALSE
    /\ UNCHANGED <<userIs, sess, globalMessages, privateMessages, friends, subs,
                   arrivedG, aloneVars>>

\* user.recall({ sessionStorage: true }): the provider restores a stored
\* session on start, before or after the component has mounted.
Recall(u) ==
    /\ userIs = NoUser
    /\ sess = 0
    /\ Work < MaxWork
    /\ userIs' = u
    /\ sess' = 1
    /\ sessionWork' = sessionWork + 1
    /\ last' = Did("recall", "-")
    /\ UNCHANGED <<isAuthenticated, currentUser, currentPub, isCheckingAuth,
                   globalMessages, privateMessages, friends, subs, effectPending,
                   arrivedG, sideVars>>

\* AuthOverlay.handleSubmit with the provider accepting the credentials:
\* user.auth sets the provider's identity, then onAuthSuccess(username) runs.
\* The overlay is rendered only while !isAuthenticated, behind the
\* isCheckingAuth spinner. The login is taken from a provider without an
\* identity, so that a session always ends with a logout (what user.auth
\* does on top of a restored identity is the provider's business).
LoginAccepted(u) ==
    /\ ~isCheckingAuth
    /\ ~isAuthenticated
    /\ userIs = NoUser
    /\ ~effectPending
    /\ userIs' = u
    /\ sess' = sess + 1
    /\ isAuthenticated' = TRUE
    /\ currentUser' = AliasOf(u)
    /\ effectPending' = TRUE
    /\ sessionWork' = sessionWork + 1
    /\ last' = Did("login", "-")
    /\ UNCHANGED <<currentPub, isCheckingAuth, globalMessages, privateMessages,
                   friends, subs, arrivedG, sideVars>>

\* A login within the bound on the state's growth.
Login(u) == Work < MaxWork /\ LoginAccepted(u)

\* handleLogout without setCurrentPub('').
LogoutKeepsPub ==
    /\ ~isCheckingAuth
    /\ isAuthenticated
    /\ ~effectPending
    /\ Work < MaxWork
    /\ userIs' = NoUser
    /\ isAuthenticated' = FALSE
    /\ currentUser' = ""
    /\ effectPending' = TRUE
    /\ sessionWork' = sessionWork + 1
    /\ last' = Did("logout", IF currentPub = <<>> THEN "-" ELSE "pub")
    /\ UNCHANGED <<sess, currentPub, isCheckingAuth, globalMessages, privateMessages,
                   friends, subs, arrivedG, sideVars>>

\* handleLogout: auth.logout() is user.leave(), then the three setters
\* (`last` notes whether a public key was held).
handleLogout ==
    /\ ~isCheckingAuth
    /\ isAuthenticated
    /\ ~effectPending
    /\ userIs' = NoUser
    /\ isAuthenticated' = FALSE
    /\ currentUser' = ""
    /\ currentPub' = <<>>
    /\ effectPending' = TRUE
    /\ sessionWork' = sessionWork + 1
    /\ last' = Did("logout", IF currentPub = <<>> THEN "-" ELSE "pub")
    /\ UNCHANGED <<sess, isCheckingAuth, globalMessages, privateMessages, friends,
                   subs, arrivedG, sideVars>>

\* A logout within the bound on the state's growth.
Logout == Work < MaxWork /\ handleLogout

\* The effect subscribing to the friends path in its first run only.
EffectListenersAtMount ==
    SetToBag({Listener("alias", <<>>), Listener("global", <<>>)}
             \cup (IF userIs # NoUser /\ subs = EmptyBag
                   THEN {Listener("friends", userIs)} ELSE {}))

\* The listeners one run of the effect registers: the session stream, the
\* global room, and the friends path when the provider has an identity.
EffectListeners ==
    SetToBag({Listener("alias", <<>>), Listener("global", <<>>)}
             \cup (IF userIs # NoUser THEN {Listener("friends", userIs)} ELSE {}))

\* The listeners after a run of the effect: its cleanup is () => {}, so
\* everything registered before stays.
ListenersAfterEffect(registered) == registered (+) EffectListeners

\* useEffect(..., [isAuthenticated]): runs after mount and after every
\* change of isAuthenticated.
RunEffect ==
    /\ effectPending
    /\ subs' = ListenersAfterEffect(subs)
    /\ effectPending' = FALSE
    /\ last' = Did("effect", "-")
    /\ UNCHANGED <<userIs, sess, isAuthenticated, currentUser, currentPub,
                   isCheckingAuth, globalMessages, privateMessages, friends,
                   sessionWork, arrivedG, sideVars>>

\* ------------------------------------------------------------------ events

\* What the global room's callback makes of the list:
\*   if (data && data.msg) { setGlobalMessages(prev => ...) }
GlobalCallback(prev, data, id) ==
    IF Truthy(data) THEN MergeMessage(prev, data, id) ELSE {prev}

\* The global room's callback (App.tsx, gun.get('ma-mesh-global-chat-v1')
\* .map().on), run by listener l for the event (data, id).
GlobalEvent(l, data, id) ==
    /\ ~effectPending
    /\ Truthy(data) /\ ~FindId(globalMessages, id) => Work < MaxWork
    /\ globalMessages' \in GlobalCallback(globalMessages, data, id)
    /\ arrivedG' = IF Truthy(data) /\ ~FindId(arrivedG, id)
                   THEN Append(arrivedG, WithId(data, id)) ELSE arrivedG
    /\ last' = Did("global", Outcome(Truthy(data), FindId(globalMessages, id),
                                    \E i \in 1..Len(globalMessages) :
                                        globalMessages[i] = WithId(data, id)))
    /\ UNCHANGED <<userIs, sess, isAuthenticated, currentUser, currentPub,
                   isCheckingAuth, privateMessages, friends, subs, effectPending,
                   sessionWork, sideVars>>

\* The setPrivateMessages updater keeping one list for all rooms.
MergePrivateShared(prev, roomId, msg, msgId) ==
    IF FindId(RoomMsgs(prev, NoRoom), msgId) THEN {prev}
    ELSE {[r \in DOMAIN prev \cup {NoRoom} |-> IF r = NoRoom THEN merged ELSE prev[r]] :
            merged \in MergeMessage(RoomMsgs(prev, NoRoom), msg, msgId)}

\* The setPrivateMessages updater: the room's list merged, the other rooms
\* kept; prev itself when the room already holds the key.
MergePrivate(prev, roomId, msg, msgId) ==
    IF FindId(RoomMsgs(prev, roomId), msgId) THEN {prev}
    ELSE {[r \in DOMAIN prev \cup {roomId} |-> IF r = roomId THEN merged ELSE prev[r]] :
            merged \in MergeMessage(RoomMsgs(prev, roomId), msg, msgId)}

\* What a private room's callback makes of the map of lists:
\*   if (msg && msg.msg) { setPrivateMessages(prev => ...) }
PrivateCallback(prev, roomId, msg, msgId) ==
    IF Truthy(msg) THEN MergePrivate(prev, roomId, msg, msgId) ELSE {prev}

\* A private room's callback (App.tsx, inside friendsHandler), run by
\* listener l for the event (msg, msgId); roomId is the listener's room.
PrivateEvent(l, msg, msgId) ==
    /\ ~effectPending
    /\ Truthy(msg) /\ ~FindId(RoomMsgs(privateMessages, l.path), msgId)
          => Work < MaxWork
    /\ privateMessages' \in PrivateCallback(privateMessages, l.path, msg, msgId)
    /\ last' = Did("private",
                   Outcome(Truthy(msg), FindId(RoomMsgs(privateMessages, l.path), msgId),
                           \E i \in 1..Len(RoomMsgs(privateMessages, l.path)) :
                               RoomMsgs(privateMessages, l.path)[i] = WithId(msg, msgId)))
    /\ UNCHANGED <<userIs, sess, isAuthenticated, currentUser, currentPub,
                   isCheckingAuth, globalMessages, friends, subs, effectPending,
                   sessionWork, arrivedG, sideVars>>

\* The listener a friend record makes friendsHandler open every time it is
\* called with the provider having an identity:
\*   gun.get('ma-mesh-private-chats').get(roomId).map().on(...)
PrivateListenerFor(id) == Listener("private", getPrivateRoomId(userIs, id))

\* The listeners after friendsHandler has accepted a friend record.
OpenPrivate(registered, id) ==
    IF userIs = NoUser THEN registered
    ELSE registered (+) SetToBag({PrivateListenerFor(id)})

\* friendsHandler (App.tsx), run by listener l for the event (data, id).
FriendEvent(l, data, id) ==
    /\ ~effectPending
    /\ IsFriendRecord(data)
          => WorkOf(AddFriendEntry(friends, data, id), OpenPrivate(subs, id)) <= MaxWork
    /\ IF IsFriendRecord(data)
       THEN /\ friends' = AddFriendEntry(friends, data, id)
            /\ subs' = OpenPrivate(subs, id)
       ELSE UNCHANGED <<friends, subs>>
    /\ last' = Did("friend", Outcome(IsFriendRecord(data), FindPub(friends, id),
                                    \E i \in 1..Len(friends) :
                                        friends[i].pub = id /\ friends[i].alias = data.alias))
    /\ UNCHANGED <<userIs, sess, isAuthenticated, currentUser, currentPub,
                   isCheckingAuth, globalMessages, privateMessages, effectPending,
                   sessionWork, arrivedG, sideVars>>

\* ------------------------------------------------- getPrivateRoomId alone

\* getPrivateRoomId applied to the two arguments, in both orders.
ResolveRoom ==
    /\ roomAB = NoRoom
    /\ roomAB' = getPrivateRoomId(argA, argB)
    /\ roomBA' = getPrivateRoomId(argB, argA)
    /\ UNCHANGED <<appVars, argA, argB, addVars, pairVars, overlayVars, mentionVars,
                   queueVars, chatVars>>

InitRoom ==
    /\ userIs = NoUser
    /\ sess = 0
    /\ isAuthenticated = FALSE
    /\ currentUser = ""
    /\ currentPub = <<>>
    /\ isCheckingAuth = TRUE
    /\ globalMessages = <<>>
    /\ privateMessages = <<>>
    /\ friends = <<>>
    /\ subs = EmptyBag
    /\ effectPending = TRUE
    /\ sessionWork = 0
    /\ arrivedG = <<>>
    /\ last = Did("init", "-")
    /\ argA \in IdStrings /\ argB \in IdStrings
    /\ roomAB = NoRoom /\ roomBA = NoRoom
    /\ SideInit

NextRoom == ResolveRoom

SpecRoom == InitRoom /\ [][NextRoom]_vars

\* ----------------------------------------------------------- adding friends

\* What the two fields of the dialog, and the two parameters of
\* auth.addFriend, can hold: nothing, a blank, a value.
PubInputs == {<<>>, <<" ">>, PUBB}
AliasInputs == {<<>>, <<" ">>, <<"x">>}

\* String.prototype.trim, one end at a time.
RECURSIVE TrimStart(_)
TrimStart(s) == IF s # <<>> /\ Head(s) = " " THEN TrimStart(Tail(s)) ELSE s
RECURSIVE TrimEnd(_)
TrimEnd(s) ==
    IF s # <<>> /\ s[Len(s)] = " " THEN TrimEnd(SubSeq(s, 1, Len(s) - 1)) ELSE s
Trim(s) == TrimEnd(TrimStart(s))

\* user.get('friends').get(pub).put({ pub, alias, status: 'friend' }), as
\* the record it leaves under the provider's identity.
FriendPut(pub, alias) ==
    [owner |-> userIs, key |-> pub,
     value |-> [pub |-> pub, alias |-> alias, status |-> "friend"]]

\* auth.addFriend(pub, alias), as the sets of records it can leave:
\*   if (user.is) { user.get('friends').get(pub).put(...) }
\* What the store makes of get('') is the store's business: the record is
\* written or it is not.
addFriend(puts, pub, alias) ==
    IF userIs = NoUser THEN {puts}
    ELSE IF pub = <<>> THEN {puts, puts \cup {FriendPut(pub, alias)}}
    ELSE {puts \cup {FriendPut(pub, alias)}}

\* auth.addFriend called with (pub, alias).
AddFriendCall(pub, alias) ==
    /\ Cardinality(friendPuts) < MaxPuts
    /\ friendPuts' \in addFriend(friendPuts, pub, alias)
    /\ last' = Did("addFriend", IF friendPuts' = friendPuts THEN "nothing" ELSE "put")
    /\ UNCHANGED <<userIs, sess, isAuthenticated, currentUser, currentPub,
                   isCheckingAuth, globalMessages, privateMessages, friends, subs,
                   effectPending, sessionWork, arrivedG, roomVars, pairVars, overlayVars,
                   mentionVars, queueVars, chatVars,
                   showAddFriend, friendIdInput, friendAliasInput>>

\* The "Add Friend" button of the home view: setShowAddFriend(true). The
\* view is behind the spinner and the overlay until a session is shown.
OpenAddFriend ==
    /\ ~isCheckingAuth /\ isAuthenticated
    /\ ~showAddFriend
    /\ showAddFriend' = TRUE
    /\ last' = Did("openAddFriend", "-")
    /\ UNCHANGED <<userIs, sess, isAuthenticated, currentUser, currentPub,
                   isCheckingAuth, globalMessages, privateMessages, friends, subs,
                   effectPending, sessionWork, arrivedG, roomVars, pairVars, overlayVars,
                   mentionVars, queueVars, chatVars, friendPuts,
                   friendIdInput, friendAliasInput>>

\* The dialog's two inputs: onChange sets the field to what was typed.
TypeFriend(id, alias) ==
    /\ showAddFriend
    /\ <<id, alias>> # <<friendIdInput, friendAliasInput>>
    /\ friendIdInput' = id
    /\ friendAliasInput' = alias
    /\ last' = Did("typeFriend", "-")
    /\ UNCHANGED <<userIs, sess, isAuthenticated, currentUser, currentPub,
                   isCheckingAuth, globalMessages, privateMessages, friends, subs,
                   effectPending, sessionWork, arrivedG, roomVars, pairVars, overlayVars,
                   mentionVars, queueVars, chatVars, friendPuts,
                   showAddFriend>>

\* handleAddFriend:
\*   if (!friendIdInput.trim() || !friendAliasInput.trim()) return;
\*   auth.addFriend(friendIdInput, friendAliasInput);
\*   setFriendIdInput(''); setFriendAliasInput(''); setShowAddFriend(false);
handleAddFriend ==
    /\ showAddFriend
    /\ Cardinality(friendPuts) < MaxPuts
    /\ IF Trim(friendIdInput) = <<>> \/ Trim(friendAliasInput) = <<>>
       THEN /\ last' = Did("handleAddFriend", "rejected")
            /\ UNCHANGED addVars
       ELSE /\ friendPuts' \in addFriend(friendPuts, friendIdInput, friendAliasInput)
            /\ friendIdInput' = <<>>
            /\ friendAliasInput' = <<>>
            /\ showAddFriend' = FALSE
            /\ last' = Did("handleAddFriend",
                           IF friendPuts' = friendPuts THEN "nothing" ELSE "put")
    /\ UNCHANGED <<userIs, sess, isAuthenticated, currentUser, currentPub,
                   isCheckingAuth, globalMessages, privateMessages, friends, subs,
                   effectPending, sessionWork, arrivedG, roomVars, pairVars, overlayVars,
                   mentionVars, queueVars, chatVars>>

\* The session's operations, as every specification below takes them.
SessionNext ==
    \/ RunEffect
    \/ \E u \in Users : Recall(u)
    \/ \E u \in Users : Login(u)
    \/ Logout
    \/ \E l \in OnePerPath("alias"), u \in Users \cup {NoUser} :
          AliasEmit(l, IF u = NoUser THEN NoAlias ELSE AliasOf(u))

NextAdd ==
    \/ SessionNext
    \/ OpenAddFriend
    \/ \E id \in PubInputs, alias \in AliasInputs : TypeFriend(id, alias)
    \/ handleAddFriend
    \/ \E pub \in PubInputs, alias \in AliasInputs : AddFriendCall(pub, alias)

SpecAdd == Init /\ [][NextAdd]_vars

\* -------------------------------------------------------------- two clients

\* The identities a second client can be authenticated as: the keys its
\* records carry on the first client's friends path.
PeerUsers == FriendKeys

\* The records of the store that the first client's list of their room does
\* not hold yet.
Undelivered ==
    Cardinality({rec \in roomStore :
                    ~FindId(RoomMsgs(privateMessages, rec.room), rec.key)})

\* The state can grow by one more step and still take every record written.
Spare == Work + Undelivered < MaxWork

\* The second client authenticates (its provider then has an identity).
PeerLogin(p) ==
    /\ peerIs = NoUser
    /\ peerIs' = p
    /\ UNCHANGED <<appVars, roomVars, addVars, overlayVars, mentionVars, queueVars, chatVars,
                   peerSelected, roomStore>>

\* The second client opens the conversation with one of its friends:
\* setSelectedFriend(friend).
PeerSelect(f) ==
    /\ peerIs # NoUser
    /\ peerSelected # f
    /\ peerSelected' = f
    /\ UNCHANGED <<appVars, roomVars, addVars, overlayVars, mentionVars, queueVars, chatVars,
                   peerIs, roomStore>>

\* handleSendPrivateMessage(text) on the second client, with Date.now() = time:
\*   if (!gunUser.is || !selectedFriend) return;
\*   roomId = getPrivateRoomId(gunUser.is.pub, selectedFriend.pub);
\*   gun.get('ma-mesh-private-chats').get(roomId).set(messageData);
\* set() stores the record under a key of its own; `to` remembers whom the
\* sender meant.
handleSendPrivateMessage(text, time) ==
    /\ Cardinality(roomStore) < MaxKeys
    /\ Spare
    /\ IF peerIs = NoUser \/ peerSelected = NoUser
       THEN UNCHANGED roomStore
       ELSE roomStore' = roomStore \cup
              {[room |-> getPrivateRoomId(peerIs, peerSelected),
                key |-> Cardinality(roomStore) + 1,
                to |-> peerSelected,
                value |-> [nil |-> FALSE, msg |-> text, user |-> AliasOf(peerIs),
                           pub |-> peerIs, time |-> time]]}
    /\ UNCHANGED <<appVars, roomVars, addVars, overlayVars, mentionVars, queueVars, chatVars,
                   peerIs, peerSelected>>

\* The store delivers the record it holds under key k to a listener of the
\* record's room (again, if it was delivered before).
Deliver(k) ==
    \E l \in OnePerPath("private"), rec \in roomStore :
        /\ rec.key = k
        /\ rec.room = l.path
        /\ PrivateEvent(l, rec.value, rec.key)

\* The first client's friend stream delivers an event.
FriendDelivery ==
    \E l \in OnePerPath("friends"), data \in FriendValues, id \in FriendKeys :
        FriendEvent(l, data, id)

NextPair ==
    \/ RunEffect
    \/ Spare /\ (\E u \in Users : Recall(u))
    \/ Spare /\ (\E u \in Users : Login(u))
    \/ Spare /\ Logout
    \/ Spare /\ (\E l \in OnePerPath("alias"), u \in Users \cup {NoUser} :
                    AliasEmit(l, IF u = NoUser THEN NoAlias ELSE AliasOf(u)))
    \/ Spare /\ FriendDelivery
    \/ \E p \in PeerUsers : PeerLogin(p)
    \/ \E f \in Users : PeerSelect(f)
    \/ \E time \in Times : handleSendPrivateMessage("hello", time)
    \/ \E k \in MsgKeys : Deliver(k)

\* The effect runs after every render that changed isAuthenticated, and the
\* store delivers every record it holds to the listeners of its path
\* (at-least-once delivery).
FairPair == WF_vars(RunEffect) /\ \A k \in MsgKeys : WF_vars(Deliver(k))

SpecPair == Init /\ [][NextPair]_vars /\ FairPair

\* ------------------------------------------------------------- the overlay

\* setError(err || 'Authentication failed')
ErrorText(err) == IF err = NoErr THEN "Authentication failed" ELSE err

\* The "Register" / "Login" link of the overlay: setIsLogin(!isLogin).
ToggleMode ==
    /\ OverlayMounted
    /\ isLogin' = ~isLogin
    /\ last' = Did("toggle", "-")
    /\ UNCHANGED <<userIs, sess, isAuthenticated, currentUser, currentPub,
                   isCheckingAuth, globalMessages, privateMessages, friends, subs,
                   effectPending, sessionWork, arrivedG, aloneVars, loading, error,
                   submitting, username>>

\* AuthOverlay.handleSubmit up to its first await, for the username u: the
\* button is disabled while loading. Taken, as Login is, from a provider
\* without an identity.
\*   setLoading(true); setError('');
\*   if (isLogin) await auth.login(...) else await auth.register(...)
Submit(u) ==
    /\ OverlayMounted
    /\ ~effectPending
    /\ userIs = NoUser
    /\ ~loading
    /\ loading' = TRUE
    /\ error' = ""
    /\ submitting' = IF isLogin THEN "login" ELSE "register"
    /\ username' = u
    /\ last' = Did("submit", IF isLogin THEN "login" ELSE "register")
    /\ UNCHANGED <<userIs, sess, isAuthenticated, currentUser, currentPub,
                   isCheckingAuth, globalMessages, privateMessages, friends, subs,
                   effectPending, sessionWork, arrivedG, aloneVars, isLogin>>

\* The catch and finally blocks of handleSubmit:
\*   setError(err || 'Authentication failed'); setLoading(false);
Rejected(err) ==
    /\ error' = ErrorText(err)
    /\ loading' = FALSE
    /\ submitting' = "idle"
    /\ UNCHANGED <<userIs, sess, isAuthenticated, currentUser, currentPub,
                   isCheckingAuth, globalMessages, privateMessages, friends, subs,
                   effectPending, sessionWork, arrivedG, aloneVars, isLogin, username>>

\* The acknowledgement of user.create taken for a success whatever it says.
RegisterAckUnchecked(err) ==
    /\ submitting = "register"
    /\ last' = Did("registerAck", IF err = NoErr THEN "ok" ELSE "err")
    /\ submitting' = "login"
    /\ UNCHANGED <<userIs, sess, isAuthenticated, currentUser, currentPub,
                   isCheckingAuth, globalMessages, privateMessages, friends, subs,
                   effectPending, sessionWork, arrivedG, aloneVars, isLogin,
                   loading, error, username>>

\* The provider acknowledges user.create (auth.register): ack.err rejects
\* the promise, and handleSubmit's catch runs; otherwise handleSubmit goes
\* on to await auth.login(username, password).
RegisterAck(err) ==
    /\ submitting = "register"
    /\ last' = Did("registerAck", IF err = NoErr THEN "ok" ELSE "err")
    /\ IF err # NoErr
       THEN Rejected(err)
       ELSE /\ submitting' = "login"
            /\ UNCHANGED <<userIs, sess, isAuthenticated, currentUser, currentPub,
                           isCheckingAuth, globalMessages, privateMessages, friends,
                           subs, effectPending, sessionWork, arrivedG, aloneVars,
                           isLogin, loading, error, username>>

\* handleSubmit after a login that went through: onAuthSuccess(username) is
\* setIsAuthenticated(true); setCurrentUser(user), and the overlay unmounts.
AuthSucceeded ==
    /\ Work < MaxWork
    /\ userIs' = username
    /\ sess' = sess + 1
    /\ isAuthenticated' = TRUE
    /\ currentUser' = AliasOf(username)
    /\ effectPending' = TRUE
    /\ sessionWork' = sessionWork + 1
    /\ OverlayUnmounts
    /\ UNCHANGED <<currentPub, isCheckingAuth, globalMessages, privateMessages,
                   friends, subs, arrivedG, aloneVars>>

\* The acknowledgement of user.auth taken for a success whatever it says.
LoginAckUnchecked(err) ==
    /\ submitting = "login"
    /\ last' = Did("loginAck", IF err = NoErr THEN "ok" ELSE "err")
    /\ AuthSucceeded

\* The provider acknowledges user.auth (auth.login): ack.err rejects the
\* promise, and handleSubmit's catch runs; otherwise the provider has the
\* identity and handleSubmit calls onAuthSuccess.
LoginAck(err) ==
    /\ submitting = "login"
    /\ last' = Did("loginAck", IF err = NoErr THEN "ok" ELSE "err")
    /\ IF err # NoErr THEN Rejected(err) ELSE AuthSucceeded

\* Sessions that begin in the overlay; a session the provider restores is
\* Recall, in Spec.
NextAuth ==
    \/ RunEffect
    \/ Logout
    \/ \E l \in OnePerPath("alias"), u \in Users \cup {NoUser} :
          AliasEmit(l, IF u = NoUser THEN NoAlias ELSE AliasOf(u))
    \/ ToggleMode
    \/ \E u \in Users : Submit(u)
    \/ \E err \in AckErrs \cup {NoErr} : RegisterAck(err)
    \/ \E err \in AckErrs \cup {NoErr} : LoginAck(err)

SpecAuth == Init /\ [][NextAuth]_vars

\* ---------------------------------------------------------- isMention alone

\* The characters message texts and aliases are made of here.
TextChars == {"@", "b", "o"}
Texts == UNION {[1..n -> TextChars] : n \in 0..MaxTextLen}
Aliases == UNION {[1..n -> TextChars] : n \in 0..MaxUserLen}

\* Whether the string begins with the search string, character by character.
RECURSIVE StartsWith(_, _)
StartsWith(str, search) ==
    IF search = <<>> THEN TRUE
    ELSE IF str = <<>> THEN FALSE
    ELSE Head(str) = Head(search) /\ StartsWith(Tail(str), Tail(search))

\* String.prototype.includes: the search string is looked for at every
\* position from the first on.
RECURSIVE includes(_, _)
includes(str, search) ==
    IF StartsWith(str, search) THEN TRUE
    ELSE IF str = <<>> THEN FALSE
    ELSE includes(Tail(str), search)

\* The test without the "@": notif.msg.includes(currentUser).
isMentionOfName(msg, user) == includes(msg, user)

\* const isMention = notif.msg?.includes(`@${currentUser}`)
isMention(msg, user) == includes(msg, <<"@">> \o user)

\* ChatView renders one message.
RenderMessage ==
    /\ mFlag = "?"
    /\ mFlag' = IF isMention(mText, mUser) THEN "mention" ELSE "plain"
    /\ UNCHANGED <<appVars, roomVars, addVars, pairVars, overlayVars, queueVars, chatVars,
                   mText, mUser>>

InitMention ==
    /\ userIs = NoUser
    /\ sess = 0
    /\ isAuthenticated = FALSE
    /\ currentUser = ""
    /\ currentPub = <<>>
    /\ isCheckingAuth = TRUE
    /\ globalMessages = <<>>
    /\ privateMessages = <<>>
    /\ friends = <<>>
    /\ subs = EmptyBag
    /\ effectPending = TRUE
    /\ sessionWork = 0
    /\ arrivedG = <<>>
    /\ last = Did("init", "-")
    /\ argA = <<>> /\ argB = <<>> /\ roomAB = NoRoom /\ roomBA = NoRoom
    /\ friendPuts = {}
    /\ showAddFriend = FALSE
    /\ friendIdInput = <<>>
    /\ friendAliasInput = <<>>
    /\ peerIs = NoUser
    /\ peerSelected = NoUser
    /\ roomStore = {}
    /\ OverlayInit
    /\ mText \in Texts /\ mUser \in Aliases /\ mFlag = "?"
    /\ updates = <<>> /\ arrivedP = <<>>
    /\ selectedFriend = <<>> /\ sent = {} /\ pending = <<>>

NextMention == RenderMessage

SpecMention == InitMention /\ [][NextMention]_vars

\* ------------------------------------------------------ queued state updates

\* The path of the global room, where a private room's id stands otherwise.
GlobalRoom == <<"*">>

\* The two message states as one value.
Lists(g, p) == [g |-> g, p |-> p]

\* A queued updater: the event its callback was called with, and the lists
\* as they were rendered when the callback ran.
Update(room, data, id) ==
    [room |-> room, data |-> data, id |-> id,
     seen |-> Lists(globalMessages, privateMessages)]

\* An updater computing from the lists its callback saw.
ApplyToSnapshot(lists, upd) ==
    IF upd.room = GlobalRoom
    THEN {Lists(g, lists.p) : g \in MergeMessage(upd.seen.g, upd.data, upd.id)}
    ELSE {Lists(lists.g, p) : p \in MergePrivate(upd.seen.p, upd.room, upd.data, upd.id)}

\* setGlobalMessages(prev => ...) / setPrivateMessages(prev => ...): React
\* calls the updater with the state the updates queued before it have left.
ApplyUpdate(lists, upd) ==
    IF upd.room = GlobalRoom
    THEN {Lists(g, lists.p) : g \in MergeMessage(lists.g, upd.data, upd.id)}
    ELSE {Lists(lists.g, p) : p \in MergePrivate(lists.p, upd.room, upd.data, upd.id)}

\* The queue applied in order, as the set of states it can leave.
RECURSIVE ApplyUpdates(_, _)
ApplyUpdates(states, queue) ==
    IF queue = <<>> THEN states
    ELSE ApplyUpdates(UNION {ApplyUpdate(lists, Head(queue)) : lists \in states},
                      Tail(queue))

\* The global room's callback up to its setter: the updater is queued.
GlobalQueued(l, data, id) ==
    /\ ~effectPending
    /\ Work + Len(updates) < MaxWork
    /\ updates' = IF Truthy(data) THEN Append(updates, Update(GlobalRoom, data, id))
                  ELSE updates
    /\ arrivedG' = IF Truthy(data) /\ ~FindId(arrivedG, id)
                   THEN Append(arrivedG, WithId(data, id)) ELSE arrivedG
    /\ last' = Did("global", IF Truthy(data) THEN "queued" ELSE "rejected")
    /\ UNCHANGED <<userIs, sess, isAuthenticated, currentUser, currentPub,
                   isCheckingAuth, globalMessages, privateMessages, friends, subs,
                   effectPending, sessionWork, roomVars, addVars, pairVars,
                   overlayVars, mentionVars, arrivedP, chatVars>>

\* A private room's callback up to its setter: the updater is queued.
PrivateQueued(l, msg, msgId) ==
    /\ ~effectPending
    /\ Work + Len(updates) < MaxWork
    /\ updates' = IF Truthy(msg) THEN Append(updates, Update(l.path, msg, msgId))
                  ELSE updates
    /\ arrivedP' = IF Truthy(msg) /\ ~FindId(RoomMsgs(arrivedP, l.path), msgId)
                   THEN [r \in DOMAIN arrivedP \cup {l.path} |->
                           IF r = l.path
                           THEN Append(RoomMsgs(arrivedP, l.path), WithId(msg, msgId))
                           ELSE arrivedP[r]]
                   ELSE arrivedP
    /\ last' = Did("private", IF Truthy(msg) THEN "queued" ELSE "rejected")
    /\ UNCHANGED <<userIs, sess, isAuthenticated, currentUser, currentPub,
                   isCheckingAuth, globalMessages, privateMessages, friends, subs,
                   effectPending, sessionWork, arrivedG, roomVars, addVars, pairVars,
                   overlayVars, mentionVars, updates, chatVars>>

\* Two of the queued updates carry the same id for the same room.
Repeats(queue) ==
    \E i, j \in 1..Len(queue) :
        i < j /\ queue[i].room = queue[j].room /\ queue[i].id = queue[j].id

\* React renders: the queued updaters run, in the order they were queued.
Render ==
    /\ updates # <<>>
    /\ \E lists \in ApplyUpdates({Lists(globalMessages, privateMessages)}, updates) :
          /\ globalMessages' = lists.g
          /\ privateMessages' = lists.p
    /\ updates' = <<>>
    /\ last' = Did("render", IF Repeats(updates) THEN "repeat" ELSE "-")
    /\ UNCHANGED <<userIs, sess, isAuthenticated, currentUser, currentPub,
                   isCheckingAuth, friends, subs, effectPending, sessionWork,
                   arrivedG, roomVars, addVars, pairVars, overlayVars, mentionVars,
                   arrivedP, chatVars>>

NextQueue ==
    \/ RunEffect
    \/ \E u \in Users : Recall(u)
    \/ Work + Len(updates) < MaxWork /\ FriendDelivery
    \/ \E l \in OnePerPath("global"), data \in MsgValues, id \in MsgKeys :
          GlobalQueued(l, data, id)
    \/ \E l \in OnePerPath("private"), msg \in MsgValues, msgId \in MsgKeys :
          PrivateQueued(l, msg, msgId)
    \/ Render

SpecQueue == Init /\ [][NextQueue]_vars

\* ------------------------------------------------------ the selected friend

\* What the session's handlers and the friend stream leave alone here.
selectFrame ==
    <<userIs, sess, isAuthenticated, currentUser, currentPub, isCheckingAuth,
      globalMessages, privateMessages, friends, subs, effectPending, sessionWork,
      arrivedG, roomVars, addVars, pairVars, mentionVars, queueVars, overlayVars>>

\* The views are behind the spinner while isCheckingAuth and under the
\* overlay (fixed inset-0) while !isAuthenticated: nothing in them can be
\* clicked then.
ViewsReachable == ~isCheckingAuth /\ isAuthenticated

\* A friend's icon in the sidebar or in the inbox: setSelectedFriend(friend).
SelectFriend(i) ==
    /\ ViewsReachable
    /\ i \in 1..Len(friends)
    /\ selectedFriend # <<friends[i]>>
    /\ selectedFriend' = <<friends[i]>>
    /\ last' = Did("select", "-")
    /\ UNCHANGED <<selectFrame, sent, pending>>

\* The tab buttons: setSelectedFriend(null).
Deselect ==
    /\ ViewsReachable
    /\ selectedFriend # <<>>
    /\ selectedFriend' = <<>>
    /\ last' = Did("deselect", "-")
    /\ UNCHANGED <<selectFrame, sent, pending>>

\* The Logout button is in ProfileView, which is rendered in the branch
\* without a selected friend.
LogoutFromProfile == selectedFriend = <<>> /\ Logout

\* The calls of getPrivateRoomId that rendering the state makes:
\*   {selectedFriend ? <ChatView messages={privateMessages[
\*       getPrivateRoomId(currentPub, selectedFriend.pub)] || []} ... /> : ...}
\* (the return before it renders the spinner alone while isCheckingAuth).
RenderCalls ==
    IF ~isCheckingAuth /\ selectedFriend # <<>>
    THEN {<<currentPub, selectedFriend[1].pub>>}
    ELSE {}

\* The calls friendsHandler makes for the events its stream can deliver:
\*   if (gunUser.is) { const roomId = getPrivateRoomId(gunUser.is.pub, id); ...
FriendCalls ==
    IF userIs # NoUser /\ ActiveListeners("friends") # {}
    THEN {<<userIs, id>> : id \in FriendKeys}
    ELSE {}

\* The call handleSendPrivateMessage makes when it is run:
\*   if (!gunUser.is || !selectedFriend) return;
\*   const roomId = getPrivateRoomId(gunUser.is.pub, selectedFriend.pub);
SendCalls ==
    IF userIs # NoUser /\ selectedFriend # <<>>
    THEN {<<userIs, selectedFriend[1].pub>>}
    ELSE {}

NextSelect ==
    \/ RunEffect
    \/ \E u \in Users : Recall(u)
    \/ \E u \in Users : Login(u)
    \/ LogoutFromProfile
    \/ \E l \in OnePerPath("alias"), u \in Users \cup {NoUser} :
          AliasEmit(l, IF u = NoUser THEN NoAlias ELSE AliasOf(u))
    \/ FriendDelivery
    \/ \E i \in 1..MaxWork : SelectFriend(i)
    \/ Deselect

SpecSelect == Init /\ [][NextSelect]_vars

\* ---------------------------------------------------------- outbound writes

\* The text a send is given.
SendTexts == {"hi"}

\* gun.get(path).set(messageData): set() stores the record under a key of
\* its own; `to` remembers the friend the send was for.
SetRecord(path, to, text, user, time) ==
    [n |-> Cardinality(sent) + 1, path |-> path, to |-> to,
     value |-> [msg |-> text, user |-> user, pub |-> userIs, time |-> time]]

\* What the sends leave alone.
sendFrame == <<selectFrame, selectedFriend>>

\* handleSendMessage(text), with Date.now() = time:
\*   if (!gunUser.is) return;
\*   gun.get('ma-mesh-global-chat-v1').set({msg: text, user: currentUser,
\*                                          pub: gunUser.is.pub, time})
handleSendMessage(text, time) ==
    /\ Cardinality(sent) < MaxSent
    /\ sent' = IF userIs = NoUser THEN sent
               ELSE sent \cup {SetRecord(GlobalRoom, <<>>, text, currentUser, time)}
    /\ last' = Did("handleSendMessage", text)
    /\ UNCHANGED <<sendFrame, pending>>

\* handleSendPrivateMessage(text) on this client, with Date.now() = time:
\*   if (!gunUser.is || !selectedFriend) return;
\*   const roomId = getPrivateRoomId(gunUser.is.pub, selectedFriend.pub);
\*   gun.get('ma-mesh-private-chats').get(roomId).set({...})
OwnSendPrivateMessage(text, time) ==
    /\ Cardinality(sent) < MaxSent
    /\ sent' = IF userIs = NoUser \/ selectedFriend = <<>> THEN sent
               ELSE sent \cup {SetRecord(getPrivateRoomId(userIs, selectedFriend[1].pub),
                                         selectedFriend[1].pub, text, currentUser, time)}
    /\ last' = Did("handleSendPrivateMessage", text)
    /\ UNCHANGED <<sendFrame, pending>>

\* The service's sendMessage(text) up to its await:
\*   if (!user.is) return;
\*   const alias = await user.get('alias').then();
sendMessage(text) ==
    /\ Cardinality(sent) < MaxSent
    /\ pending = <<>>
    /\ pending' = IF userIs = NoUser THEN <<>>
                  ELSE <<[fn |-> "sendMessage", text |-> text, roomId |-> GlobalRoom,
                          to |-> <<>>]>>
    /\ last' = Did("sendMessage", "called")
    /\ UNCHANGED <<sendFrame, sent>>

\* The service's sendPrivateMessage(friendPub, text) up to its await:
\*   if (!user.is) return;
\*   const roomId = getPrivateRoomId(user.is.pub, friendPub);
\*   const alias = await user.get('alias').then();
sendPrivateMessage(friendPub, text) ==
    /\ Cardinality(sent) < MaxSent
    /\ pending = <<>>
    /\ pending' = IF userIs = NoUser THEN <<>>
                  ELSE <<[fn |-> "sendPrivateMessage", text |-> text,
                          roomId |-> getPrivateRoomId(userIs, friendPub),
                          to |-> friendPub]>>
    /\ last' = Did("sendPrivateMessage", "called")
    /\ UNCHANGED <<sendFrame, sent>>

\* The awaited alias has arrived and the send goes on, with Date.now() = time:
\*   const messageData = {msg: text, user: alias, pub: user.is.pub, time};
\*   globalChat.set(messageData)  /  gun.get(...).get(roomId).set(messageData)
\* user.is.pub throws when the provider has lost its identity meanwhile, and
\* nothing is written.
AliasArrives(alias, time) ==
    /\ pending # <<>>
    /\ pending' = <<>>
    /\ sent' = IF userIs = NoUser THEN sent
               ELSE sent \cup {SetRecord(pending[1].roomId, pending[1].to,
                                         pending[1].text, alias, time)}
    /\ last' = Did(pending[1].fn, pending[1].text)
    /\ UNCHANGED sendFrame

NextSend ==
    \/ RunEffect
    \/ \E u \in Users : Login(u)
    \/ LogoutFromProfile
    \/ \E l \in OnePerPath("alias"), u \in Users \cup {NoUser} :
          AliasEmit(l, IF u = NoUser THEN NoAlias ELSE AliasOf(u))
    \/ FriendDelivery
    \/ \E i \in 1..MaxWork : SelectFriend(i)
    \/ Deselect
    \/ \E text \in SendTexts, time \in Times : handleSendMessage(text, time)
    \/ \E text \in SendTexts, time \in Times : OwnSendPrivateMessage(text, time)
    \/ \E text \in SendTexts : sendMessage(text)
    \/ \E friendPub \in FriendKeys, text \in SendTexts :
          sendPrivateMessage(friendPub, text)
    \/ \E u \in Users, time \in Times : AliasArrives(AliasOf(u), time)

SpecSend == Init /\ [][NextSend]_vars

\* ------------------------------------------------- one identity after another

\* Sessions that follow each other in one page: logins and logouts are
\* bounded by the number of sessions instead of the state's growth.
NextCarry ==
    \/ RunEffect
    \/ \E u \in Users : sess < MaxSessions /\ LoginAccepted(u)
    \/ selectedFriend = <<>> /\ handleLogout
    \/ \E l \in OnePerPath("alias") : AliasEmit(l, NoAlias)
    \/ FriendDelivery
    \/ \E i \in 1..MaxWork : SelectFriend(i)
    \/ Deselect

SpecCarry == Init /\ [][NextCarry]_vars

\* -------------------------------------------------------- friend discovery

\* The session's operations and the friend stream.
NextLive ==
    \/ SessionNext
    \/ FriendDelivery

\* React runs the effect after every render that changed isAuthenticated.
FairLive == WF_vars(RunEffect)

SpecLive == Init /\ [][NextLive]_vars /\ FairLive

\* ----------------------------------------------------------- specification

Next ==
    \/ RunEffect
    \/ \E u \in Users : Recall(u)
    \/ \E u \in Users : Login(u)
    \/ Logout
    \/ \E l \in OnePerPath("alias"), u \in Users \cup {NoUser} :
          AliasEmit(l, IF u = NoUser THEN NoAlias ELSE AliasOf(u))
    \/ \E l \in OnePerPath("global"), data \in MsgValues, id \in MsgKeys :
          GlobalEvent(l, data, id)
    \/ \E l \in OnePerPath("friends"), data \in FriendValues, id \in FriendKeys :
          FriendEvent(l, data, id)
    \/ \E l \in OnePerPath("private"), msg \in MsgValues, msgId \in MsgKeys :
          PrivateEvent(l, msg, msgId)

Spec == Init /\ [][Next]_vars

\* ------------------------------------------------------------------ claims

\* Every message list the state holds: the global room's and each private room's.
AllLists == {globalMessages} \cup {privateMessages[r] : r \in DOMAIN privateMessages}

NoDupIds(list) == \A i, j \in 1..Len(list) : list[i].id = list[j].id => i = j

\* C1: in every reachable state neither the global room's list nor any
\* private room's list holds two messages with the same id, whatever events
\* were delivered, duplicated or replayed.
C1_UniqueIds == \A list \in AllLists : NoDupIds(list)

\* A key the global room already held was delivered again, and the room
\* holds two messages.
C1_Witness ==
    /\ last.op = "global" /\ last.what \in {"same", "differs"}
    /\ Len(globalMessages) >= 2

\* list[i].time >= list[i+1].time as JavaScript evaluates it: false when
\* either side is undefined.
TimeGE(a, b) == a # NoTime /\ b # NoTime /\ a >= b

SortedDescending(list) ==
    \A i \in 1..(Len(list) - 1) : TimeGE(list[i].time, list[i + 1].time)

\* C2: after every processed event each room's list is sorted by time
\* descending, list[i].time >= list[i+1].time for all adjacent positions,
\* for every event the reconciler accepts (a present value with a text
\* field, whatever its other fields are).
C2_SortedByTime == \A list \in AllLists : SortedDescending(list)

\* C3: applying an event to a room twice yields the same list as applying it
\* once, for every reachable room state and every event; the same event
\* delivered twice to the empty global room leaves one message.
C3_Idempotent ==
    \A data \in MsgValues, id \in MsgKeys :
        /\ \A once \in GlobalCallback(globalMessages, data, id) :
              GlobalCallback(once, data, id) = {once}
        /\ \A l \in ActiveListeners("private") :
              \A once \in PrivateCallback(privateMessages, l.path, data, id) :
                  PrivateCallback(once, l.path, data, id) = {once}
        /\ Truthy(data) =>
              \A once \in GlobalCallback(<<>>, data, id) :
                  \A twice \in GlobalCallback(once, data, id) : Len(twice) = 1

\* The event the global room holds as its only message was delivered again.
C3_Witness ==
    /\ last = Did("global", "same")
    /\ Len(globalMessages) = 1

\* The stored messages all carry a time, and no two the same one.
DistinctTimes(list) ==
    \A i, j \in 1..Len(list) :
        list[i].time # NoTime /\ (i # j => list[i].time # list[j].time)

\* C4: when the accepted events have pairwise distinct ids and pairwise
\* distinct timestamps, the global room's list is the same for every order
\* of delivery, duplicates included: the accepted messages, each once, in
\* strictly descending order of time (arrivedG holds them in arrival order).
C4_OrderIndependent ==
    DistinctTimes(arrivedG) =>
        /\ Len(globalMessages) = Len(arrivedG)
        /\ {globalMessages[i] : i \in 1..Len(globalMessages)}
             = {arrivedG[i] : i \in 1..Len(arrivedG)}
        /\ \A i \in 1..(Len(globalMessages) - 1) :
              globalMessages[i].time > globalMessages[i + 1].time

\* Messages arrived oldest first (against the list's order), and a duplicate
\* was delivered after them.
C4_Witness ==
    /\ Len(arrivedG) >= 2
    /\ DistinctTimes(arrivedG)
    /\ \A i \in 1..(Len(arrivedG) - 1) : arrivedG[i].time < arrivedG[i + 1].time
    /\ last.op = "global" /\ last.what \in {"same", "differs"}

\* C5: after the friend stream has delivered the status='friend' event of a
\* key several times within one session, exactly one listener on that
\* friend's private room is registered (of those opened in that session).
C5_ExactlyOneSubscription ==
    \A l \in ActiveListeners("private") :
        (userIs # NoUser /\ l.sess = sess) => CopiesIn(l, subs) = 1

NoDupPubs(list) == \A i, j \in 1..Len(list) : list[i].pub = list[j].pub => i = j

\* C6: the friend registry never holds two entries with the same public key,
\* and a status='friend' event whose key is already registered leaves the
\* registry as it is (the alias seen first is kept).
C6_NoDuplicateFriends ==
    /\ [](NoDupPubs(friends))
    /\ [][(last'.op = "friend" /\ last'.what \in {"same", "differs"})
             => friends' = friends]_vars

\* A friend record arrived for a registered key with another alias.
C6_Witness ==
    /\ last = Did("friend", "differs")
    /\ Len(friends) = 1

\* Listener l runs one of its callbacks.
Delivers(l) ==
    \/ \E data \in MsgValues, id \in MsgKeys :
          l.kind = "global" /\ GlobalEvent(l, data, id)
    \/ \E data \in MsgValues, id \in MsgKeys :
          l.kind = "private" /\ PrivateEvent(l, data, id)
    \/ \E data \in FriendValues, id \in FriendKeys :
          l.kind = "friends" /\ FriendEvent(l, data, id)

\* C7: once a session has ended, no callback of a listener registered during
\* it (global room, friend stream, private rooms) changes the message lists
\* or the friend set.
C7_NoCallbackAfterLogout ==
    [][\A l \in BagToSet(subs) :
          (Stale(l) /\ Delivers(l))
             => UNCHANGED <<globalMessages, privateMessages, friends>>]_vars

\* C8: after a logout and a login as another identity, no listener that was
\* registered while the earlier identity was authenticated is still
\* registered.
C8_CleanSubscriptionsAfterRelogin ==
    userIs # NoUser =>
        \A l \in BagToSet(subs) : l.owner \in {NoUser, userIs}

\* C9: getPrivateRoomId(a, b) = getPrivateRoomId(b, a) for all identity
\* strings a and b (the empty string included).
C9_Symmetric == roomAB # NoRoom => roomAB = roomBA

\* The room id was computed for two different arguments given in descending
\* order, so that the sort had to swap them.
C9_Witness == roomAB # NoRoom /\ argB # <<>> /\ StrLess(argB, argA)

\* C10: for non-empty identity strings, two different unordered pairs never
\* get the same room id.
C10_CollisionFree ==
    (roomAB # NoRoom /\ argA # <<>> /\ argB # <<>>) =>
        \A c, d \in IdStrings \ {<<>>} :
            {c, d} # {argA, argB} => getPrivateRoomId(c, d) # roomAB

\* C11: addFriend(publicKey, alias) with an empty publicKey or an empty alias
\* writes nothing to the store, whatever the session state: no record with
\* an empty key or an empty alias is ever put on a friends path.
C11_EmptyAddFriendRejected ==
    \A put \in friendPuts : put.key # <<>> /\ put.value.alias # <<>>

\* A listener the first client opened, as identity u, for the friend key p.
OpenedFor(l, u, p) ==
    /\ l.kind = "private"
    /\ l.owner = u
    /\ l.path \in {u \o <<"_">> \o p, p \o <<"_">> \o u}

\* How many messages of a list have the id.
CountId(list, id) == Cardinality({i \in 1..Len(list) : list[i].id = id})

\* The record under key k was written by p for u, and u's client has
\* opened a listener for its friend p.
SentToListener(k, u, p) ==
    /\ \E rec \in roomStore : rec.key = k /\ rec.value.pub = p /\ rec.to = u
    /\ \E l \in BagToSet(subs) : OpenedFor(l, u, p)

\* u's list for the room it shares with p holds the message k exactly once.
HeldOnce(k, u, p) ==
    \E l \in BagToSet(subs) :
        OpenedFor(l, u, p) /\ CountId(RoomMsgs(privateMessages, l.path), k) = 1

\* C12: if client B has processed, while authenticated, a status='friend'
\* record for A, and A sends a private message to B, then under fair
\* at-least-once delivery B's list for the room of the two eventually holds
\* that message exactly once, and keeps holding it so.
C12_CrossClientVisibility ==
    \A k \in MsgKeys, u \in Users, p \in PeerUsers :
        SentToListener(k, u, p) ~> [](HeldOnce(k, u, p))

\* A message of the second client is held by the first, which opened the
\* room's listener with the identities the other way round in its call.
C12_Witness ==
    \E k \in MsgKeys :
        /\ SentToListener(k, PUBB, PUBC) \/ SentToListener(k, PUBA, PUBB)
        /\ HeldOnce(k, PUBB, PUBC) \/ HeldOnce(k, PUBA, PUBB)

\* The session as the App component holds it, and the provider's identity.
sessionVars == <<isAuthenticated, currentUser, currentPub, userIs>>

\* C13: register does not itself authenticate; in the registration flow
\* login is invoked only after register has succeeded; onAuthSuccess (which
\* marks the session authenticated) is invoked only after login has
\* succeeded; a failed register causes no login attempt.
C13_RegistrationOrder ==
    [][/\ last'.op = "registerAck" => UNCHANGED sessionVars
       /\ (submitting' = "login" /\ submitting # "login")
             => \/ last' = Did("submit", "login") /\ isLogin
                \/ last' = Did("registerAck", "ok") /\ submitting = "register"
       /\ (isAuthenticated' /\ ~isAuthenticated /\ last'.op # "alias")
             => last' = Did("loginAck", "ok") /\ submitting = "login"
       /\ last' = Did("registerAck", "err") => submitting' = "idle"]_vars

\* Register has succeeded and login is awaited: nobody is authenticated yet.
C13_Witness ==
    /\ last = Did("registerAck", "ok")
    /\ submitting = "login"
    /\ ~isAuthenticated /\ userIs = NoUser

\* C14: whenever the provider acknowledges login or register with ack.err
\* set, the operation fails with that reason: the session (isAuthenticated,
\* alias, public key, the provider's identity) is left as it was, the error
\* message is the reason, and loading is false again.
C14_FailureIsAnErrorValue ==
    [][\A err \in AckErrs :
          (LoginAck(err) \/ RegisterAck(err))
             => /\ UNCHANGED sessionVars
                /\ error' = err
                /\ ~loading'
                /\ submitting' = "idle"]_vars

\* A login was refused after an earlier session had been opened and closed.
C14_Witness ==
    /\ last = Did("loginAck", "err")
    /\ error \in AckErrs /\ ~loading
    /\ sess >= 1

\* A message value that is absent (a tombstone) or has no text field.
NoText(data) == data.nil \/ data.msg = NoMsg

\* C15: a message event whose value is absent or has no text field is
\* dropped with no state change, in the global room and in every private
\* room: all lists and the friend set are after it what they were before
\* (no step of a message callback that changes any of them is the step of
\* such an event).
C15_MalformedDropped ==
    [][(/\ last'.op \in {"global", "private"}
        /\ <<globalMessages, privateMessages, friends>>'
              # <<globalMessages, privateMessages, friends>>)
          => \A data \in {d \in MsgValues : NoText(d)}, id \in MsgKeys :
                /\ \A l \in OnePerPath("global") : ~GlobalEvent(l, data, id)
                /\ \A l \in OnePerPath("private") : ~PrivateEvent(l, data, id)]_vars

\* A private room's listener has dropped an event while messages were held.
C15_Witness ==
    /\ last = Did("private", "rejected")
    /\ Stored >= 1

\* C16: a friend-stream event whose value is absent or whose status is not
\* 'friend' adds no registry entry, opens no private-room subscription, and
\* leaves the entries already registered as they are (no step of
\* friendsHandler that changes the registry or the subscriptions is the step
\* of such an event).
C16_NonFriendIgnored ==
    [][(last'.op = "friend" /\ <<friends, subs>>' # <<friends, subs>>)
          => \A data \in {d \in FriendValues : d.nil \/ d.status # "friend"},
                id \in FriendKeys :
                \A l \in OnePerPath("friends") : ~FriendEvent(l, data, id)]_vars

\* friendsHandler has ignored an event while a friend was registered and
\* its room subscribed.
C16_Witness ==
    /\ last = Did("friend", "rejected")
    /\ Len(friends) >= 1
    /\ ActiveListeners("private") # {}

\* The text holds "@" at position i, with the alias right behind it.
MentionAt(text, user, i) ==
    /\ i + Len(user) <= Len(text)
    /\ text[i] = "@"
    /\ \A j \in 1..Len(user) : text[i + j] = user[j]

\* C17: a message is flagged as a mention if and only if its text contains
\* the contiguous substring "@" followed by the current alias, for every
\* text and every alias.
C17_MentionExact ==
    mFlag # "?" =>
        (mFlag = "mention" <=> \E i \in 1..Len(mText) : MentionAt(mText, mUser, i))

\* A text that names the alias twice, the first time without the "@" and
\* the second time with it, was flagged.
C17_Witness ==
    /\ mFlag = "mention"
    /\ mUser = <<"b">>
    /\ mText = <<"b", "@", "b">>

\* C18: in the state right after handleLogout, isAuthenticated is false and
\* the alias and the public key are empty, whatever the state before.
C18_LogoutClearsSession ==
    [][last'.op = "logout"
          => /\ ~isAuthenticated'
             /\ currentUser' = ""
             /\ currentPub' = <<>>]_vars

\* handleLogout has just run in a session that held a public key.
C18_Witness ==
    /\ last = Did("logout", "pub")
    /\ ~isAuthenticated /\ currentPub = <<>>

\* The session an emission of the alias leaves, read off the emission.
SessionAfterEmission(alias) ==
    IF alias # NoAlias /\ userIs # NoUser
    THEN isAuthenticated' /\ currentUser' = alias /\ currentPub' = userIs
    ELSE ~isAuthenticated' /\ currentUser' = "" /\ currentPub' = <<>>

\* C19: after every emission of the session stream, not only the first, the
\* session is {authenticated, the emitted alias, the provider's public key}
\* when the alias is non-empty and the provider has an identity, and
\* {unauthenticated, empty alias, empty public key} otherwise; the
\* session-checking flag is false from the first emission on.
C19_EveryEmissionAuthoritative ==
    /\ [][last'.op = "alias"
             => \A u \in Users \cup {NoUser} :
                   LET alias == IF u = NoUser THEN NoAlias ELSE AliasOf(u)
                   IN  (\E l \in OnePerPath("alias") : AliasEmit(l, alias))
                          => SessionAfterEmission(alias) /\ ~isCheckingAuth']_vars
    /\ [][~isCheckingAuth => ~isCheckingAuth']_vars

\* An emission that was not the first (the login came after one) has
\* filled in the public key of a session the overlay had opened.
C19_Witness ==
    /\ last.op = "alias"
    /\ isAuthenticated /\ userIs # NoUser /\ currentPub = userIs
    /\ sessionWork = 1

\* The list holds exactly the accepted messages, each once.
SameMessages(list, arrived) ==
    /\ Len(list) = Len(arrived)
    /\ {list[i] : i \in 1..Len(list)} = {arrived[i] : i \in 1..Len(arrived)}

\* C20: each event is applied as one unit, against the list as it is when
\* the update is applied: however the callbacks of all streams interleave
\* and however many updates are queued before a render (two with the same
\* id among them), no list ever holds an id twice, every list a state shows
\* is in the order its sort leaves it in, and once the queue has been
\* applied every room holds exactly the messages accepted for it.
C20_AtomicUpdates ==
    /\ \A list \in AllLists : NoDupIds(list) /\ list \in SortOutcomes(list)
    /\ updates = <<>> =>
          /\ SameMessages(globalMessages, arrivedG)
          /\ \A r \in DOMAIN arrivedP \cup DOMAIN privateMessages :
                SameMessages(RoomMsgs(privateMessages, r), RoomMsgs(arrivedP, r))

\* Two events with the same id were queued for the global room before any
\* render, and the render that applied them has left one message.
C20_Witness ==
    /\ last = Did("render", "repeat")
    /\ Len(globalMessages) = 1
    /\ privateMessages = <<>>

\* Every message of the list is in the later list, field for field.
Kept(list, later) ==
    \A i \in 1..Len(list) : \E j \in 1..Len(later) : later[j] = list[i]

\* C21: a message that is in a room's list stays in that list with the same
\* id, text, author alias, author public key and time through every step,
\* whatever event the step processes (the same key with another payload and
\* a tombstone for the key included).
C21_AppendOnly ==
    [][/\ Kept(globalMessages, globalMessages')
       /\ \A r \in DOMAIN privateMessages :
             Kept(privateMessages[r], RoomMsgs(privateMessages', r))]_vars

\* A private room holding a message was delivered the message's key with
\* another payload.
C21_Witness ==
    /\ last = Did("private", "differs")
    /\ privateMessages # <<>>

\* C22: getPrivateRoomId is never called with an empty identity: in every
\* reachable state each of its three call sites (the render of the selected
\* friend's conversation, friendsHandler, handleSendPrivateMessage) passes
\* two non-empty identities or does not call.
C22_NoEmptyIdentity ==
    \A call \in RenderCalls \cup FriendCalls \cup SendCalls :
        call[1] # <<>> /\ call[2] # <<>>

\* Some room other than R has another list after the step.
OtherRoomChanged(R) ==
    \E r \in (DOMAIN privateMessages \cup DOMAIN privateMessages') \ {R} :
        RoomMsgs(privateMessages', r) # RoomMsgs(privateMessages, r)

GlobalSends == {"handleSendMessage", "sendMessage"}
PrivateSends == {"handleSendPrivateMessage", "sendPrivateMessage"}

\* C24: a send writes nothing while the provider has no current identity;
\* while it has one, a send writes exactly one record {msg: the given text,
\* user, pub: the current identity's public key, time}, a global send to
\* the global path and a private send to the path of
\* getPrivateRoomId(current public key, friend public key).
C24_WritesRequireSession ==
    [][/\ userIs = NoUser => sent' = sent
       /\ sent' # sent
             => \E rec \in sent' \ sent :
                   /\ sent' = sent \cup {rec}
                   /\ rec.value.msg = last'.what
                   /\ rec.value.pub = userIs
                   /\ last'.op \in GlobalSends => rec.path = GlobalRoom
                   /\ last'.op \in PrivateSends
                         => rec.path = getPrivateRoomId(userIs, rec.to)]_vars

\* A listener on the private room of some identity of this client with the
\* friend key.
SubscribedTo(pub) ==
    \E l \in ActiveListeners("private"), u \in Users :
        l.path = getPrivateRoomId(u, pub)

\* C25: in every reachable state, every friend in the registry has an
\* active subscription to the private room shared with it, also when its
\* record was processed while the provider had no identity.
C25_RegisteredImpliesSubscribed ==
    \A i \in 1..Len(friends) : SubscribedTo(friends[i].pub)

\* C26: in every reachable state where isAuthenticated is true, the stored
\* public key is non-empty and is the public key of the provider's current
\* identity, and the stored alias is that identity's alias, whether the
\* session was opened by the login form or by the session stream.
C26_SessionConsistent ==
    isAuthenticated =>
        /\ currentPub # <<>>
        /\ currentPub = userIs
        /\ currentUser = AliasOf(userIs)

\* How many listeners of a kind are registered.
Registered(kind) ==
    BagCardinality([l \in ActiveListeners(kind) |-> subs[l]])

\* C27: after any sequence of mount, session restore, login and logout
\* steps there is at most one active subscription to the global room, at
\* most one to the session stream and at most one to a friend stream.
C27_NoAccumulation ==
    \A kind \in {"global", "alias", "friends"} : Registered(kind) <= 1

\* The provider has an identity whose friend stream this page has never
\* subscribed to: whatever the page holds came from another identity.
NothingOfOwn ==
    /\ userIs # NoUser
    /\ \A l \in ActiveListeners("friends") \cup ActiveListeners("private") :
          l.owner # userIs

\* C28: after logout of identity A and login as another identity B, the
\* friend registry, the selected friend and the private-room lists hold no
\* entry that came from A's friend stream or A's private rooms: as long as
\* nothing of B's own has been subscribed, all three are empty.
C28_NoCarryOver ==
    NothingOfOwn =>
        /\ friends = <<>>
        /\ selectedFriend = <<>>
        /\ privateMessages = <<>>

\* A listener on the friends path of identity u is registered.
FriendStreamOf(u) ==
    \E l \in ActiveListeners("friends") : l.path = u /\ l.owner = u

\* C29: whenever a session is authenticated, by the login form or by a
\* restored session, with the provider's identity there before or after
\* the effect's first run, a subscription to that identity's friend stream
\* is eventually active and stays so; and every status='friend' record a
\* friend stream delivers for a key not yet registered is added to the
\* registry.
C29_FriendDiscoveryLive ==
    /\ \A u \in Users :
          (isAuthenticated /\ userIs = u) ~> [](FriendStreamOf(u))
    /\ [][last' = Did("friend", "new") => Len(friends') = Len(friends) + 1]_vars

\* The effect first ran without an identity; the session was authenticated
\* afterwards, and a record of its friend stream has been registered.
C29_Witness ==
    /\ isAuthenticated /\ userIs # NoUser
    /\ FriendStreamOf(userIs)
    /\ \E l \in ActiveListeners("alias") : l.owner = NoUser
    /\ last = Did("friend", "new")

\* Where the message with the id stands in the arrival history.
ArrivalOf(arrived, id) == CHOOSE n \in 1..Len(arrived) : arrived[n].id = id

\* Of two messages of the list that carry the same time, the one that
\* arrived later stands first.
LaterFirst(list, arrived) ==
    \A i, j \in 1..Len(list) :
        (i < j /\ list[i].time # NoTime /\ list[i].time = list[j].time)
            => ArrivalOf(arrived, list[i].id) > ArrivalOf(arrived, list[j].id)

====
